---- MODULE Spec2Model ----
(***************************************************************************)
(* get_aws_ranges.py: download-or-reuse of the AWS ip-ranges document and  *)
(* the four query modes run against it.                                    *)
(*                                                                         *)
(* Strings are sequences of one-character strings, so that upper(), the    *)
(* address parser and the CIDR parser are computed and not assumed.        *)
(* An optional value (argparse's None, get_data's None) is <<>> and a      *)
(* present value v is <<v>>.                                               *)
(***************************************************************************)
EXTENDS Integers, Sequences, FiniteSets, TLC

(* ------------------------------ bounds -------------------------------- *)
\* longest dataset ("prefixes" list) enumerated for the query functions
MaxPrefixes == 2
\* number of blocks urlretrieve's copy loop needs for one document
NBlocks == 2

(* ------------------------------ strings ------------------------------- *)
None == <<>>
Some(v) == <<v>>

LowerLetters == <<"a","b","c","d","e","f","g","h","i","j","k","l","m",
                  "n","o","p","q","r","s","t","u","v","w","x","y","z">>
UpperLetters == <<"A","B","C","D","E","F","G","H","I","J","K","L","M",
                  "N","O","P","Q","R","S","T","U","V","W","X","Y","Z">>
Digits == <<"0","1","2","3","4","5","6","7","8","9">>

IndexOf(c, tab) == IF \E i \in DOMAIN tab : tab[i] = c
                   THEN CHOOSE i \in DOMAIN tab : tab[i] = c
                   ELSE 0

\* str.upper(), character by character (ASCII letters)
UpperChar(c) == IF IndexOf(c, LowerLetters) # 0
                THEN UpperLetters[IndexOf(c, LowerLetters)]
                ELSE c
Upper(s) == [i \in DOMAIN s |-> UpperChar(s[i])]

IsDigit(c) == IndexOf(c, Digits) # 0
DigitVal(c) == IndexOf(c, Digits) - 1
IsHexDigit(c) == \/ IsDigit(c)
                 \/ IndexOf(c, LowerLetters) \in 1..6
                 \/ IndexOf(c, UpperLetters) \in 1..6

\* str.split(sep) for a one-character separator
RECURSIVE SplitAcc(_, _, _, _)
SplitAcc(s, sep, i, cur) ==
    IF i > Len(s) THEN <<cur>>
    ELSE IF s[i] = sep THEN <<cur>> \o SplitAcc(s, sep, i + 1, <<>>)
    ELSE SplitAcc(s, sep, i + 1, Append(cur, s[i]))
Split(s, sep) == SplitAcc(s, sep, 1, <<>>)

RECURSIVE DecValue(_)
DecValue(s) == IF s = <<>> THEN 0
               ELSE 10 * DecValue(SubSeq(s, 1, Len(s) - 1)) + DigitVal(s[Len(s)])

(* ----------------------- ipaddress (standard library) ----------------- *)
\* IPv4Address._parse_octet: decimal digits only, at most three, no leading
\* zero on a longer octet, value at most 255
OctetOk(o) == /\ Len(o) \in 1..3
              /\ \A i \in DOMAIN o : IsDigit(o[i])
              /\ (Len(o) > 1 => o[1] # "0")
              /\ DecValue(o) <= 255

\* IPv4Address(s): four octets separated by "."
IsIPv4(s) == LET parts == Split(s, ".")
             IN  Len(parts) = 4 /\ \A i \in 1..4 : OctetOk(parts[i])
\* the 32-bit address as its four base-256 digits, most significant first
IPv4Octets(s) == LET parts == Split(s, ".")
                 IN  [i \in 1..4 |-> DecValue(parts[i])]

\* IPv6Address(s), the shapes the inputs here can take: groups of at most
\* four hex digits separated by ":", either eight groups or one "::"
\* standing for the missing ones
IsIPv6(s) ==
    LET parts == Split(s, ":")
        n == Len(parts)
        dbl == {i \in 1..(Len(s) - 1) : s[i] = ":" /\ s[i + 1] = ":"}
        empties == Cardinality({i \in 1..n : parts[i] = <<>>})
        atStart == IF 1 \in dbl THEN 1 ELSE 0
        atEnd == IF Len(s) >= 2 /\ (Len(s) - 1) \in dbl THEN 1 ELSE 0
    IN  /\ n >= 3
        /\ \A i \in 1..n : Len(parts[i]) <= 4
                           /\ \A j \in DOMAIN parts[i] : IsHexDigit(parts[i][j])
        /\ \/ Cardinality(dbl) = 0 /\ n = 8 /\ empties = 0
           \/ /\ Cardinality(dbl) = 1
              /\ n - empties <= 7
              /\ empties = 1 + atStart + atEnd

\* ipaddress.ip_address(s): IPv4Address, else IPv6Address, else ValueError
ip_address(s) ==
    IF IsIPv4(s) THEN [ok |-> TRUE, version |-> 4, ip |-> IPv4Octets(s)]
    ELSE IF IsIPv6(s) THEN [ok |-> TRUE, version |-> 6, ip |-> <<>>]
    ELSE [ok |-> FALSE, version |-> 0, ip |-> <<>>]

RECURSIVE Pow2(_)
Pow2(n) == IF n = 0 THEN 1 ELSE 2 * Pow2(n - 1)

\* number of netmask bits that fall in octet k (1..4) of a /plen network
MaskBits(plen, k) == IF plen >= 8 * k THEN 8
                     ELSE IF plen <= 8 * (k - 1) THEN 0
                     ELSE plen - 8 * (k - 1)
\* octet AND netmask-octet
AndMask(o, bits) == o - (o % Pow2(8 - bits))

\* ipaddress.ip_network(s) with strict=True: "a.b.c.d/len" (no "/len" means
\* /32); ValueError for a bad address, a bad length or host bits set
ip_network(s) ==
    LET parts == Split(s, "/")
        addrOk == Len(parts) \in 1..2 /\ IsIPv4(parts[1])
        lenOk == \/ Len(parts) = 1
                 \/ /\ Len(parts) = 2
                    /\ Len(parts[2]) \in 1..2
                    /\ \A i \in DOMAIN parts[2] : IsDigit(parts[2][i])
                    /\ DecValue(parts[2]) <= 32
        plen == IF Len(parts) = 1 THEN 32 ELSE DecValue(parts[2])
        addr == IPv4Octets(parts[1])
    IN  IF addrOk /\ lenOk
           /\ \A k \in 1..4 : AndMask(addr[k], MaskBits(plen, k)) = addr[k]
        THEN [ok |-> TRUE, version |-> 4, network_address |-> addr, prefixlen |-> plen]
        ELSE [ok |-> FALSE, version |-> 0, network_address |-> <<>>, prefixlen |-> 0]

\* _BaseNetwork.__contains__: false across versions, else
\* other._ip & netmask == network_address
NetContains(net, ip) ==
    /\ net.version = ip.version
    /\ \A k \in 1..4 :
          AndMask(ip.ip[k], MaskBits(net.prefixlen, k)) = net.network_address[k]

(* ------------------------------ the data ------------------------------ *)
us_east_1 == <<"u","s","-","e","a","s","t","-","1">>
US_EAST_1 == <<"U","S","-","E","A","S","T","-","1">>
eu_west_1 == <<"e","u","-","w","e","s","t","-","1">>
EC2 == <<"E","C","2">>
ec2 == <<"e","c","2">>
S3 == <<"S","3">>
Net10 == <<"1","0",".","0",".","0",".","0","/","8">>
Net3 == <<"3",".","5",".","1","4","0",".","0","/","2","2">>
NetHostBits == <<"1","0",".","0",".","0",".","1","/","8">>

Entry(p, r, s) == [ip_prefix |-> p, region |-> r, service |-> s]

\* records a "prefixes" list is built from; the last one is a block the
\* ipaddress module refuses (host bits set)
EntryPool == { Entry(Net10, us_east_1, EC2),
               Entry(Net10, US_EAST_1, ec2),
               Entry(Net3, us_east_1, S3),
               Entry(Net3, eu_west_1, EC2),
               Entry(NetHostBits, eu_west_1, EC2) }

RECURSIVE SeqsUpTo(_, _)
SeqsUpTo(S, n) == IF n = 0 THEN {<<>>}
                  ELSE LET shorter == SeqsUpTo(S, n - 1)
                       IN  shorter \cup {Append(q, x) : q \in shorter, x \in S}

\* a parsed JSON object: its top-level keys and the value under "prefixes"
Dataset(prefixes) == [keys |-> {"syncToken", "createDate", "prefixes"},
                      prefixes |-> prefixes]
Datasets == {Dataset(q) : q \in SeqsUpTo(EntryPool, MaxPrefixes)}

\* the documents the remote end can serve
DocNames == {"A", "B", "html", "nokey", "empty"}
\* json.load of a whole document: ok = FALSE is JSONDecodeError
JsonLoad(name) ==
    CASE name = "A" -> [ok |-> TRUE,
                        value |-> Dataset(<<Entry(Net10, us_east_1, EC2),
                                            Entry(Net3, eu_west_1, EC2)>>)]
      [] name = "B" -> [ok |-> TRUE,
                        value |-> Dataset(<<Entry(Net3, us_east_1, S3)>>)]
      [] name = "nokey" -> [ok |-> TRUE,
                            value |-> [keys |-> {"syncToken", "createDate"},
                                       prefixes |-> <<>>]]
      [] name = "empty" -> [ok |-> TRUE, value |-> [keys |-> {}, prefixes |-> <<>>]]
      [] OTHER -> [ok |-> FALSE, value |-> [keys |-> {}, prefixes |-> <<>>]]

\* Python truth value of a str-or-None argument and of the loaded data
Truthy(opt) == opt # None /\ opt[1] # <<>>
DataTruthy(d) == d # None /\ d[1].keys # {}

(* ------------------------------ output -------------------------------- *)
Line(k, a, b, c) == [k |-> k, a |-> a, b |-> b, c |-> c, s |-> {}]
SetLine(k, S) == [k |-> k, a |-> <<>>, b |-> <<>>, c |-> <<>>, s |-> S]
Printed(lines) == [lines |-> lines, traceback |-> ""]
Raised(lines, exc) == [lines |-> lines, traceback |-> exc]

(* --------------------------- the query modes -------------------------- *)
print_regions(data) ==
    IF "prefixes" \notin data.keys THEN Raised(<<>>, "KeyError")
    ELSE Printed(<<SetLine("regions",
                           {data.prefixes[i].region : i \in DOMAIN data.prefixes})>>)

print_services(data, region) ==
    IF "prefixes" \notin data.keys THEN Raised(<<>>, "KeyError")
    ELSE IF ~Truthy(region)
    THEN Printed(<<SetLine("services",
                           {data.prefixes[i].service : i \in DOMAIN data.prefixes})>>)
    ELSE Printed(<<SetLine("services",
                           {data.prefixes[i].service :
                              i \in {j \in DOMAIN data.prefixes :
                                       Upper(data.prefixes[j].region) = Upper(region[1])}})>>)

MatchLine(e) == Line("match", e.region, e.service, e.ip_prefix)

\* line 94: the entries whose network holds the address, in dataset order
RECURSIVE SearchResults(_, _)
SearchResults(q, ip) ==
    IF q = <<>> THEN <<>>
    ELSE (IF NetContains(ip_network(Head(q).ip_prefix), ip) THEN <<Head(q)>> ELSE <<>>)
         \o SearchResults(Tail(q), ip)

\* find_subnets keeping only the first prefix that holds the address
find_subnets_FirstHitOnly(data, search_ip) ==
    LET ip == ip_address(search_ip)
        search_results == SearchResults(data.prefixes, ip)
    IN  IF ~ip.ok THEN Printed(<<Line("badip", search_ip, <<>>, <<>>)>>)
        ELSE IF "prefixes" \notin data.keys THEN Raised(<<>>, "KeyError")
        ELSE IF \E i \in DOMAIN data.prefixes : ~ip_network(data.prefixes[i].ip_prefix).ok
        THEN Raised(<<>>, "ValueError")
        ELSE IF search_results # <<>>
        THEN Printed(<<Line("found", <<>>, <<>>, <<>>), MatchLine(search_results[1])>>)
        ELSE Printed(<<Line("notfound", <<>>, <<>>, <<>>)>>)

find_subnets(data, search_ip) ==
    LET ip == ip_address(search_ip)
        search_results == SearchResults(data.prefixes, ip)
    IN  IF ~ip.ok THEN Printed(<<Line("badip", search_ip, <<>>, <<>>)>>)
        ELSE IF "prefixes" \notin data.keys THEN Raised(<<>>, "KeyError")
        ELSE IF \E i \in DOMAIN data.prefixes : ~ip_network(data.prefixes[i].ip_prefix).ok
        THEN Raised(<<>>, "ValueError")
        ELSE IF search_results # <<>>
        THEN Printed(<<Line("found", <<>>, <<>>, <<>>)>>
                     \o [i \in DOMAIN search_results |-> MatchLine(search_results[i])])
        ELSE Printed(<<Line("notfound", <<>>, <<>>, <<>>)>>)

\* the loop body of print_results applying --service also without a region
ResultRow_ServiceAlone(e, region, service) ==
    IF ~Truthy(region)
    THEN IF Truthy(service) /\ Upper(e.service) # Upper(service[1])
         THEN <<>>
         ELSE <<Line("prefix3", e.ip_prefix, e.service, e.region)>>
    ELSE IF Truthy(service)
    THEN IF e.region = region[1] /\ Upper(e.service) = Upper(service[1])
         THEN <<Line("prefix2", e.ip_prefix, e.service, <<>>)>>
         ELSE <<>>
    ELSE IF Upper(e.region) = Upper(region[1])
         THEN <<Line("prefix2", e.ip_prefix, e.service, <<>>)>>
         ELSE <<>>

\* lines 117-126: what one entry prints
ResultRow(e, region, service) ==
    IF ~Truthy(region)
    THEN <<Line("prefix3", e.ip_prefix, e.service, e.region)>>
    ELSE IF Truthy(service)
    THEN IF e.region = region[1] /\ Upper(e.service) = Upper(service[1])
         THEN <<Line("prefix2", e.ip_prefix, e.service, <<>>)>>
         ELSE <<>>
    ELSE IF Upper(e.region) = Upper(region[1])
         THEN <<Line("prefix2", e.ip_prefix, e.service, <<>>)>>
         ELSE <<>>

RECURSIVE ResultRows(_, _, _)
ResultRows(q, region, service) ==
    IF q = <<>> THEN <<>>
    ELSE ResultRow(Head(q), region, service) \o ResultRows(Tail(q), region, service)

print_results(data, region, service) ==
    IF "prefixes" \notin data.keys THEN Raised(<<>>, "KeyError")
    ELSE Printed(ResultRows(data.prefixes, region, service))

\* main's chain with the find-ip test placed before the list-services test
QueryMode_FindIpFirst(a) ==
    IF a.list_regions THEN "list-regions"
    ELSE IF Truthy(a.findip) THEN "find-ip"
    ELSE IF a.list_services THEN "list-services"
    ELSE "list-prefixes"

\* main's if / elif chain over the parsed arguments
QueryMode(a) ==
    IF a.list_regions THEN "list-regions"
    ELSE IF a.list_services THEN "list-services"
    ELSE IF Truthy(a.findip) THEN "find-ip"
    ELSE "list-prefixes"

RunQuery(d, a) ==
    CASE QueryMode(a) = "list-regions" -> print_regions(d)
      [] QueryMode(a) = "list-services" -> print_services(d, a.region)
      [] QueryMode(a) = "find-ip" -> find_subnets(d, a.findip[1])
      [] OTHER -> print_results(d, a.region, a.service)

(* --------------------------- the invocations -------------------------- *)
\* Two invocations (operating-system processes) share the cache file.
Procs == {1, 2}

VARIABLES
    cache,      \* aws_subnets.json: [exists, blocks]
    pc,         \* where each invocation is
    args,       \* argparse's namespace
    resp,       \* the HTTP response being copied: [doc, avail]
    written,    \* the writer's file offset, in blocks
    dl,         \* how urlretrieve ended: "", "ok" or the exception raised
    data,       \* get_data's return value: None or Some(parsed document)
    out,        \* lines printed on standard output
    traceback,  \* the uncaught exception that ended the invocation, if any
    exitCode,   \* the process's exit status, -1 while it runs
    ran,        \* the query functions main called
    loaded,     \* what open(json_file) / json.load read: None or Some(blocks)
    cache0,     \* the cache file as it was when the invocation started
    prevOk      \* the same process's previous invocation downloaded in full

vars == <<cache, pc, args, resp, written, dl, data, out, traceback, exitCode,
          ran, loaded, cache0, prevOk>>

NoFile == [exists |-> FALSE, blocks |-> <<>>]
File(blocks) == [exists |-> TRUE, blocks |-> blocks]
\* a block never written (a hole left by writing past the end of the file)
Zero == [doc |-> "", i |-> 0]
Block(d, i) == [doc |-> d, i |-> i]
BlocksOf(d) == [i \in 1..NBlocks |-> Block(d, i)]

\* file.write at block offset pos (the writer's own position in the file)
WriteAt(blocks, pos, b) ==
    [i \in 1..(IF Len(blocks) >= pos THEN Len(blocks) ELSE pos) |->
        IF i = pos THEN b ELSE IF i <= Len(blocks) THEN blocks[i] ELSE Zero]

\* json.load of what was read from the cache file
ParseFile(blocks) ==
    IF \E d \in DocNames : blocks = BlocksOf(d)
    THEN JsonLoad(CHOOSE d \in DocNames : blocks = BlocksOf(d))
    ELSE [ok |-> FALSE, value |-> [keys |-> {}, prefixes |-> <<>>]]

OptStr(S) == {None} \cup {Some(x) : x \in S}
ArgSets(findips, regions, services) ==
    [list_regions : BOOLEAN, list_services : BOOLEAN,
     findip : OptStr(findips), region : OptStr(regions), service : OptStr(services)]

Ip_10_1_2_3 == <<"1","0",".","1",".","2",".","3">>
Ip_3_5_143_255 == <<"3",".","5",".","1","4","3",".","2","5","5">>
Ip_3_5_144_0 == <<"3",".","5",".","1","4","4",".","0">>
Ip_3_5_139_255 == <<"3",".","5",".","1","3","9",".","2","5","5">>
Ip_999 == <<"9","9","9",".","1",".","1",".","1">>
Ip_v6 == <<":",":","1">>

NoArgs == [list_regions |-> FALSE, list_services |-> FALSE,
           findip |-> None, region |-> None, service |-> None]

\* command lines tried by whole invocations, by the query functions alone,
\* and by two invocations at once
RunArgs == ArgSets({Ip_10_1_2_3, Ip_999}, {us_east_1}, {})
QueryArgs == ArgSets({<<>>, Ip_10_1_2_3, Ip_3_5_139_255, Ip_3_5_143_255, Ip_3_5_144_0,
                      Ip_999, Ip_v6},
                     {<<>>, us_east_1, US_EAST_1}, {<<>>, EC2, ec2})
ConcArgs == {NoArgs}
ConcDocs == {"A", "B"}

Idle == [p \in Procs |-> "idle"]

Init ==
    /\ cache = NoFile
    /\ pc = Idle
    /\ args = [p \in Procs |-> NoArgs]
    /\ resp = [p \in Procs |-> [doc |-> "", avail |-> 0]]
    /\ written = [p \in Procs |-> 0]
    /\ dl = [p \in Procs |-> ""]
    /\ data = [p \in Procs |-> None]
    /\ out = [p \in Procs |-> <<>>]
    /\ traceback = [p \in Procs |-> ""]
    /\ exitCode = [p \in Procs |-> -1]
    /\ ran = [p \in Procs |-> {}]
    /\ loaded = [p \in Procs |-> None]
    /\ cache0 = [p \in Procs |-> NoFile]
    /\ prevOk = [p \in Procs |-> FALSE]

\* main, lines 136-150: a fresh process parses its command line
Start(p, a) ==
    /\ pc[p] \in {"idle", "done"}
    /\ pc' = [pc EXCEPT ![p] = "urlretrieve"]
    /\ args' = [args EXCEPT ![p] = a]
    /\ resp' = [resp EXCEPT ![p] = [doc |-> "", avail |-> 0]]
    /\ written' = [written EXCEPT ![p] = 0]
    /\ dl' = [dl EXCEPT ![p] = ""]
    /\ data' = [data EXCEPT ![p] = None]
    /\ out' = [out EXCEPT ![p] = <<>>]
    /\ traceback' = [traceback EXCEPT ![p] = ""]
    /\ exitCode' = [exitCode EXCEPT ![p] = -1]
    /\ ran' = [ran EXCEPT ![p] = {}]
    /\ loaded' = [loaded EXCEPT ![p] = None]
    /\ cache0' = [cache0 EXCEPT ![p] = cache]
    /\ prevOk' = [prevOk EXCEPT ![p] = (dl[p] = "ok")]
    /\ UNCHANGED cache

\* urlretrieve: urlopen raises URLError (no connection) or HTTPError (a
\* status that is not success) before the cache file is opened
UrlOpenFail(p, exc) ==
    /\ pc[p] = "urlretrieve"
    /\ dl' = [dl EXCEPT ![p] = exc]
    /\ pc' = [pc EXCEPT ![p] = "except"]
    /\ UNCHANGED <<cache, args, resp, written, data, out, traceback, exitCode,
                   ran, loaded, cache0, prevOk>>

\* urlretrieve: urlopen succeeds for document d, of which the connection
\* will deliver avail blocks, and open(json_file, 'wb') truncates the file
UrlOpenOk(p, d, avail) ==
    /\ pc[p] = "urlretrieve"
    /\ resp' = [resp EXCEPT ![p] = [doc |-> d, avail |-> avail]]
    /\ written' = [written EXCEPT ![p] = 0]
    /\ cache' = File(<<>>)
    /\ pc' = [pc EXCEPT ![p] = "copy"]
    /\ UNCHANGED <<args, dl, data, out, traceback, exitCode, ran, loaded,
                   cache0, prevOk>>

\* urlretrieve's loop: read a block, write it to the file
CopyBlock(p) ==
    /\ pc[p] = "copy"
    /\ written[p] < resp[p].avail
    /\ cache' = File(WriteAt(cache.blocks, written[p] + 1,
                             Block(resp[p].doc, written[p] + 1)))
    /\ written' = [written EXCEPT ![p] = written[p] + 1]
    /\ UNCHANGED <<pc, args, resp, dl, data, out, traceback, exitCode, ran,
                   loaded, cache0, prevOk>>

\* urlretrieve after the loop: ContentTooShortError (a URLError) when fewer
\* bytes came than Content-Length announced
CopyEnd(p) ==
    /\ pc[p] = "copy"
    /\ written[p] = resp[p].avail
    /\ IF resp[p].avail < NBlocks
       THEN /\ dl' = [dl EXCEPT ![p] = "ContentTooShortError"]
            /\ pc' = [pc EXCEPT ![p] = "except"]
       ELSE /\ dl' = [dl EXCEPT ![p] = "ok"]
            /\ pc' = [pc EXCEPT ![p] = "load"]
    /\ UNCHANGED <<cache, args, resp, written, data, out, traceback, exitCode,
                   ran, loaded, cache0, prevOk>>

\* get_data's except clause, lines 33-46
Except(p) ==
    /\ pc[p] = "except"
    /\ IF ~cache.exists
       THEN /\ out' = [out EXCEPT ![p] = Append(out[p], Line("error", <<>>, <<>>, <<>>))]
            /\ data' = [data EXCEPT ![p] = None]
            /\ pc' = [pc EXCEPT ![p] = "main"]
       ELSE /\ out' = [out EXCEPT ![p] = Append(out[p], Line("warning", <<>>, <<>>, <<>>))]
            /\ data' = data
            /\ pc' = [pc EXCEPT ![p] = "input"]
    /\ UNCHANGED <<cache, args, resp, written, dl, traceback, exitCode, ran,
                   loaded, cache0, prevOk>>

\* line 47: input() returns when the operator presses enter
PressEnter(p) ==
    /\ pc[p] = "input"
    /\ pc' = [pc EXCEPT ![p] = "load"]
    /\ UNCHANGED <<cache, args, resp, written, dl, data, out, traceback,
                   exitCode, ran, loaded, cache0, prevOk>>

\* lines 48-49: open the cache file, read it and parse it; an exception
\* here is not caught anywhere and ends the process with status 1
Load(p) ==
    /\ pc[p] = "load"
    /\ IF ~cache.exists
       THEN /\ traceback' = [traceback EXCEPT ![p] = "FileNotFoundError"]
            /\ exitCode' = [exitCode EXCEPT ![p] = 1]
            /\ pc' = [pc EXCEPT ![p] = "done"]
            /\ UNCHANGED <<data, loaded>>
       ELSE /\ loaded' = [loaded EXCEPT ![p] = Some(cache.blocks)]
            /\ IF ParseFile(cache.blocks).ok
               THEN /\ data' = [data EXCEPT ![p] = Some(ParseFile(cache.blocks).value)]
                    /\ pc' = [pc EXCEPT ![p] = "main"]
                    /\ UNCHANGED <<traceback, exitCode>>
               ELSE /\ traceback' = [traceback EXCEPT ![p] = "JSONDecodeError"]
                    /\ exitCode' = [exitCode EXCEPT ![p] = 1]
                    /\ pc' = [pc EXCEPT ![p] = "done"]
                    /\ data' = data
    /\ UNCHANGED <<cache, args, resp, written, dl, out, ran, cache0, prevOk>>

\* main, lines 155-169: run the selected query, or exit(1) without data
Main(p) ==
    /\ pc[p] = "main"
    /\ IF DataTruthy(data[p])
       THEN LET r == RunQuery(data[p][1], args[p])
            IN  /\ ran' = [ran EXCEPT ![p] = {QueryMode(args[p])}]
                /\ out' = [out EXCEPT ![p] = out[p] \o r.lines]
                /\ traceback' = [traceback EXCEPT ![p] = r.traceback]
                /\ exitCode' = [exitCode EXCEPT ![p] = IF r.traceback = "" THEN 0 ELSE 1]
       ELSE /\ exitCode' = [exitCode EXCEPT ![p] = 1]
            /\ UNCHANGED <<ran, out, traceback>>
    /\ pc' = [pc EXCEPT ![p] = "done"]
    /\ UNCHANGED <<cache, args, resp, written, dl, data, loaded, cache0, prevOk>>

Step(p, argset, docs, avails) ==
    \/ \E a \in argset : Start(p, a)
    \/ \E exc \in {"URLError", "HTTPError"} : UrlOpenFail(p, exc)
    \/ \E d \in docs, avail \in avails : UrlOpenOk(p, d, avail)
    \/ CopyBlock(p)
    \/ CopyEnd(p)
    \/ Except(p)
    \/ PressEnter(p)
    \/ Load(p)
    \/ Main(p)

\* one invocation after another
Next == Step(1, RunArgs, DocNames, 0..NBlocks)
Spec == Init /\ [][Next]_vars

\* two invocations at once; every transfer that starts delivers the whole
\* document, so a short file can only be one that is still being written
NextConc == \E p \in Procs : Step(p, ConcArgs, ConcDocs, {NBlocks})
SpecConc == Init /\ [][NextConc]_vars

\* the query modes alone: main from line 155 on, with any dataset loaded
\* and any command line
InitQuery ==
    /\ cache = NoFile
    /\ pc = [Idle EXCEPT ![1] = "main"]
    /\ args \in {[[p \in Procs |-> NoArgs] EXCEPT ![1] = a] : a \in QueryArgs}
    /\ resp = [p \in Procs |-> [doc |-> "", avail |-> 0]]
    /\ written = [p \in Procs |-> 0]
    /\ dl = [p \in Procs |-> ""]
    /\ data \in {[[p \in Procs |-> None] EXCEPT ![1] = Some(d)] : d \in Datasets}
    /\ out = [p \in Procs |-> <<>>]
    /\ traceback = [p \in Procs |-> ""]
    /\ exitCode = [p \in Procs |-> -1]
    /\ ran = [p \in Procs |-> {}]
    /\ loaded = [p \in Procs |-> None]
    /\ cache0 = [p \in Procs |-> NoFile]
    /\ prevOk = [p \in Procs |-> FALSE]
NextQuery == Main(1)
SpecQuery == InitQuery /\ [][NextQuery]_vars

(* ------------------------------- claims ------------------------------- *)
Failures == {"URLError", "HTTPError", "ContentTooShortError"}
Done(p) == pc[p] = "done"
ErrorLine == Line("error", <<>>, <<>>, <<>>)
WarningLine == Line("warning", <<>>, <<>>, <<>>)
QueryKinds == {"regions", "services", "prefix3", "prefix2", "found", "match",
               "notfound", "badip"}
\* the stored document parses and holds the "prefixes" key
IsDatasetFile(blocks) == /\ ParseFile(blocks).ok
                         /\ "prefixes" \in ParseFile(blocks).value.keys
\* every ip_prefix of the dataset is a CIDR block the ipaddress module accepts
ValidDataset(d) == \A i \in DOMAIN d.prefixes : ip_network(d.prefixes[i].ip_prefix).ok

\* C1: when the download fails and no cache file existed when the
\* invocation started, the invocation ends with exit code 1 having printed
\* the error message and nothing else, and no query mode has run, whatever
\* the flags.
C1_NoCacheFailureExits1 ==
    \A p \in Procs :
        (Done(p) /\ dl[p] \in Failures /\ ~cache0[p].exists)
            => /\ exitCode[p] = 1
               /\ out[p] = <<ErrorLine>>
               /\ ran[p] = {}

\* C2: when the previous invocation downloaded a dataset in full and this
\* invocation's download fails, this invocation prints the fallback warning
\* first, loads exactly what the earlier download stored, runs the selected
\* query on it and ends with exit code 0.
C2_FallbackUsesStoredContent ==
    \A p \in Procs :
        (Done(p) /\ prevOk[p] /\ dl[p] \in Failures /\ IsDatasetFile(cache0[p].blocks))
            => /\ exitCode[p] = 0
               /\ out[p] # <<>> /\ out[p][1] = WarningLine
               /\ loaded[p] = Some(cache0[p].blocks)
               /\ data[p] = Some(ParseFile(cache0[p].blocks).value)
               /\ ran[p] = {QueryMode(args[p])}

\* C3: the cache file changes only on a successful download: after an
\* invocation whose download failed the file is what it was when the
\* invocation started, and after a successful download it is the downloaded
\* document.
C3_CacheChangesOnlyOnSuccess ==
    \A p \in Procs :
        Done(p) => /\ dl[p] \in Failures => cache = cache0[p]
                   /\ dl[p] = "ok" => cache = File(BlocksOf(resp[p].doc))

\* C4: with a dataset loaded, exactly one query mode runs, the first of
\* list-regions, list-services, find-ip, list-prefixes whose flag is set
\* (--findip counts as set when it carries a non-empty value), and every
\* line printed is a line of that mode.
ModeKinds(m) == CASE m = "list-regions" -> {"regions"}
                  [] m = "list-services" -> {"services"}
                  [] m = "find-ip" -> {"found", "match", "notfound", "badip"}
                  [] OTHER -> {"prefix3", "prefix2"}
FlagSet(a, m) == CASE m = "list-regions" -> a.list_regions
                   [] m = "list-services" -> a.list_services
                   [] m = "find-ip" -> a.findip # None /\ a.findip[1] # <<>>
                   [] OTHER -> TRUE
Precedence == <<"list-regions", "list-services", "find-ip", "list-prefixes">>
SameIgnoringCase(x, y) == Upper(x) = Upper(y)
C5_Selected(d, region, service) ==
    {i \in DOMAIN d.prefixes :
        /\ SameIgnoringCase(d.prefixes[i].region, region[1])
        /\ Truthy(service) => SameIgnoringCase(d.prefixes[i].service, service[1])}
C5_CaseInsensitiveFilters ==
    (Done(1) /\ ran[1] = {"list-prefixes"} /\ Truthy(args[1].region)) =>
        LET d == data[1][1]
            sel == C5_Selected(d, args[1].region, args[1].service)
        IN  /\ Len(out[1]) = Cardinality(sel)
            /\ \A n \in DOMAIN out[1] :
                  \E i \in sel :
                     /\ Cardinality({j \in sel : j <= i}) = n
                     /\ out[1][n] = Line("prefix2", d.prefixes[i].ip_prefix,
                                         d.prefixes[i].service, <<>>)

\* C6: for a dataset of valid CIDR blocks and a valid IPv4 address, find-ip
\* prints one match line for each prefix whose block [network, network +
\* 2^(32 - length) - 1] holds the address, in dataset order, after the
\* heading line; and prints the single not-found line, with no error, when
\* no block holds it.
AddrInt(o) == ((o[1] * 256 + o[2]) * 256 + o[3]) * 256 + o[4]
InBlock(prefix, addr) ==
    LET parts == Split(prefix, "/")
        lo == AddrInt(IPv4Octets(parts[1]))
        hi == lo + Pow2(32 - DecValue(parts[2])) - 1
        x == AddrInt(IPv4Octets(addr))
    IN  lo <= x /\ x <= hi
C6_FindIpMatchesContainment ==
    (/\ Done(1) /\ ran[1] = {"find-ip"}
     /\ IsIPv4(args[1].findip[1]) /\ ValidDataset(data[1][1])) =>
        LET d == data[1][1]
            hits == {i \in DOMAIN d.prefixes :
                        InBlock(d.prefixes[i].ip_prefix, args[1].findip[1])}
        IN  /\ traceback[1] = "" /\ exitCode[1] = 0
            /\ hits = {} => out[1] = <<Line("notfound", <<>>, <<>>, <<>>)>>
            /\ hits # {} =>
                  /\ Len(out[1]) = Cardinality(hits) + 1
                  /\ out[1][1] = Line("found", <<>>, <<>>, <<>>)
                  /\ \A i \in hits :
                        out[1][1 + Cardinality({j \in hits : j <= i})]
                            = Line("match", d.prefixes[i].region,
                                   d.prefixes[i].service, d.prefixes[i].ip_prefix)
C6_Witness ==
    /\ Done(1) /\ ran[1] = {"find-ip"}
    /\ args[1].findip = Some(Ip_3_5_143_255)
    /\ data[1] = Some(Dataset(<<Entry(Net10, us_east_1, EC2), Entry(Net3, eu_west_1, EC2)>>))
    /\ out[1] = <<Line("found", <<>>, <<>>, <<>>), Line("match", eu_west_1, EC2, Net3)>>

\* C7: for every non-empty --findip value that does not parse as an IPv4
\* address (and a dataset of valid CIDR blocks), the invocation prints
\* exactly one error line naming the value, no match or not-found line, does
\* not crash and exits with code 0.
C7_InvalidAddressErrorLine ==
    (/\ Done(1) /\ DataTruthy(data[1]) /\ ValidDataset(data[1][1])
     /\ ~args[1].list_regions /\ ~args[1].list_services
     /\ Truthy(args[1].findip) /\ ~IsIPv4(args[1].findip[1])) =>
        /\ out[1] = <<Line("badip", args[1].findip[1], <<>>, <<>>)>>
        /\ traceback[1] = ""
        /\ exitCode[1] = 0

\* C8: a cache file that is not valid JSON, or whose document lacks the
\* "prefixes" key, is fatal in every query mode: the invocation that read it
\* exits with code 1 and prints no query output.
C8_CorruptDataIsFatal ==
    \A p \in Procs :
        (Done(p) /\ loaded[p] # None /\ ~IsDatasetFile(loaded[p][1])) =>
            /\ exitCode[p] = 1
            /\ \A n \in DOMAIN out[p] : out[p][n].k \notin QueryKinds

\* C9: with two invocations running at once, whatever an invocation reads
\* from the cache file is a complete document, the previous one or the new
\* one, never a partly written file.
C9_NeverReadsPartialFile ==
    \A p \in Procs :
        loaded[p] # None => \E d \in DocNames : loaded[p][1] = BlocksOf(d)

\* C10: in list-prefixes mode without a region filter (no --region, or an
\* empty one) the output is every prefix in dataset order as
\* ip_prefix,service,region whatever --service says; with a region filter
\* every line printed has the two-field form ip_prefix,service.
C10_ServiceAloneIgnored ==
    (Done(1) /\ ran[1] = {"list-prefixes"}) =>
        LET d == data[1][1]
        IN  IF args[1].region = None \/ args[1].region = Some(<<>>)
            THEN out[1] = [i \in DOMAIN d.prefixes |->
                             Line("prefix3", d.prefixes[i].ip_prefix,
                                  d.prefixes[i].service, d.prefixes[i].region)]
            ELSE \A n \in DOMAIN out[1] : out[1][n].k = "prefix2"
C10_Witness ==
    /\ Done(1) /\ ran[1] = {"list-prefixes"}
    /\ args[1].region = None /\ args[1].service = Some(EC2)
    /\ data[1] = Some(Dataset(<<Entry(Net10, us_east_1, EC2), Entry(Net3, us_east_1, S3)>>))
    /\ out[1] = <<Line("prefix3", Net10, EC2, us_east_1), Line("prefix3", Net3, S3, us_east_1)>>

====
